---- MODULE Spec2Model ----
(***************************************************************************)
(* A model of the data-binding sidebar of kernel-demo: the Toast notice    *)
(* list (toast.tsx, notice.tsx), the RunningSessionsComponent with its     *)
(* bind / unbind handlers, and the older stateless panel of doc.tsx.       *)
(* Strings the code searches, concatenates or splits are sequences of      *)
(* one-character strings, so that indexOf, basename and the command        *)
(* serialisation are computed the way the code computes them.              *)
(***************************************************************************)
EXTENDS Integers, Sequences, FiniteSets, TLC

VARIABLES
  notices,          \* Toast.state.notices: sequence of notice records
  timers,           \* pending setTimeout(removeNotice) callbacks, in creation order
  onCloseScheduled, \* ids of the notices whose onClose was handed to setTimeout
  now,              \* new Date().getTime(), in milliseconds
  nextId,           \* identity of the next notice object created (ghost)
  closers,          \* keys captured by the closers addNotice has returned (SpecToast)
  displayStyle,     \* RunningSessionsComponent.state.displayStyle
  name,             \* RunningSessionsComponent.state.name
  cookie,           \* document.cookie: sequence of [name, value] pairs
  invs,             \* the bind / unbind handler invocations, in click order
  sent,             \* requestExecute calls: sequence of [inv, path, code]
  httpPosts,        \* bodies of the POSTs to api/binds/0, with the invocation
  opens,            \* sessionOpenRequested emissions: sequence of paths
  lastEvent,        \* the handler that ran last, with its input (ghost)
  catalog,          \* SpecFlatten: the catalog response under test
  flat,             \* SpecFlatten: the flattened list
  flatDone,         \* SpecFlatten: whether the flatten loop has run
  running,          \* the models UseSignal holds: the snapshot or the last emission
  rows,             \* the rows ListView renders: sequence of [model, label]
  emitted,          \* number of runningChanged emissions so far (ghost)
  httpGets          \* GET api/binds/0 requests: sequence of [inv, notebookId]

toastVars == <<notices, timers, onCloseScheduled, now, nextId, closers>>
compVars == <<displayStyle, name, cookie, invs, sent, httpPosts, opens, lastEvent>>
flatVars == <<catalog, flat, flatDone>>
listVars == <<running, rows, emitted>>
vars == <<toastVars, compVars, flatVars, listVars, httpGets>>

----------------------------------------------------------------------------
(* Bounds of the model. *)

MaxNotices == 3      \* notices added in SpecToast
MaxTicks == 1        \* clock advances
MaxDatasets == 2     \* datasets of a catalog in SpecFlatten
MaxSamples == 2      \* samples of a dataset in SpecFlatten

(* Program constants. *)

NoticeDuration == 2000   \* duration of the success / error notices
LoadingDuration == 0     \* duration of the loading notice
TransitionTime == 300    \* Toast.transitionTime
TickMs == NoticeDuration \* granularity of the modelled clock, in milliseconds

----------------------------------------------------------------------------
(* String literals of the code, as character sequences. *)

BIND_SUCCESSED == <<"b", "i", "n", "d", " ", "s", "u", "c", "c", "e", "s", "s", "e", "d">>
BINDING_FAILS == <<"b", "i", "n", "d", "i", "n", "g", " ", "f", "a", "i", "l", "s">>
QUIT_SUCCESSED == <<"q", "u", "i", "t", " ", "s", "u", "c", "c", "e", "s", "s", "e", "d">>
QUIT_FAILS == <<"q", "u", "i", "t", " ", "f", "a", "i", "l", "s">>
QUIT_CODE == <<"%", " ", "q", "u", "i", "t">>
BIND_PREFIX == <<"%", " ", "b", "i", "n", "d", " ", "-", "-", "t", "a", "s", "k", "=", "\"">>
BIND_MIDDLE == <<"\"", " ", "-", "-", "s", "o", "u", "r", "c", "e", "s", "=", "[">>
NULL_STR == <<"n", "u", "l", "l">>

(* String.prototype.indexOf(needle): the least 0-based position at which   *)
(* needle occurs in text, or -1.                                           *)
IndexOf(text, needle) ==
  LET hits == {i \in 1..(Len(text) - Len(needle) + 1) :
                 SubSeq(text, i, i + Len(needle) - 1) = needle}
  IN IF hits = {} THEN -1 ELSE (CHOOSE i \in hits : \A j \in hits : i <= j) - 1

(* Array.prototype.join(sep) of a sequence of character sequences. *)
RECURSIVE Join(_, _)
Join(parts, sep) ==
  IF parts = <<>> THEN <<>>
  ELSE IF Len(parts) = 1 THEN parts[1]
  ELSE parts[1] \o sep \o Join(Tail(parts), sep)

(* Number to string conversion of '+' on a non-negative integer. *)
Digits == <<"0", "1", "2", "3", "4", "5", "6", "7", "8", "9">>
RECURSIVE NatToStr(_)
NatToStr(n) ==
  IF n < 10 THEN <<Digits[n + 1]>>
  ELSE NatToStr(n \div 10) \o <<Digits[(n % 10) + 1]>>

(* PathExt.basename(path): what follows the last '/'. *)
RECURSIVE Basename(_)
Basename(path) ==
  IF \A i \in 1..Len(path) : path[i] # "/" THEN path
  ELSE Basename(Tail(path))

----------------------------------------------------------------------------
(* The catalog flattening of the bind handler. *)

(* The two nested for-in loops that push one object per sample. *)
RECURSIVE FlattenSamples(_, _)
FlattenSamples(ds, samples) ==
  IF samples = <<>> THEN <<>>
  ELSE <<[id |-> Head(samples).datasetsId,
          dataSetId |-> ds.dataSourceId,
          key |-> Head(samples).key,
          dataSetName |-> ds.dataSourceName,
          dsId |-> Head(samples).dsId,
          userId |-> ds.userId,
          username |-> ds.username]>> \o FlattenSamples(ds, Tail(samples))

RECURSIVE FlattenLoop(_)
FlattenLoop(dataArr) ==
  IF dataArr = <<>> THEN <<>>
  ELSE FlattenSamples(Head(dataArr), Head(dataArr).samples) \o FlattenLoop(Tail(dataArr))

(* posts.map(e => { e.isChecked = false; e.varName = '' }) *)
InitChecklist(posts) ==
  [i \in 1..Len(posts) |->
     [id |-> posts[i].id, dataSetId |-> posts[i].dataSetId, key |-> posts[i].key,
      dataSetName |-> posts[i].dataSetName, dsId |-> posts[i].dsId,
      userId |-> posts[i].userId, username |-> posts[i].username,
      isChecked |-> FALSE, varName |-> <<>>]]

(* A plausible slip: the sample loop pushes in front instead of behind. *)
RECURSIVE FlattenReversed(_)
FlattenReversed(data) ==
  IF data.datasets = <<>> THEN <<>>
  ELSE LET ds == Head(data.datasets)
           rev == [i \in 1..Len(ds.samples) |-> ds.samples[Len(ds.samples) + 1 - i]]
       IN InitChecklist(FlattenSamples(ds, rev))
            \o FlattenReversed([datasets |-> Tail(data.datasets)])

Flatten(data) == InitChecklist(FlattenLoop(data.datasets))

----------------------------------------------------------------------------
(* The Toast component (toast.tsx) and the notice() entry point.  The      *)
(* operators below take and return the component's state as a record, so   *)
(* that a handler making several Toast calls is one action.                *)

CurToast ==
  [notices |-> notices, timers |-> timers, onClose |-> onCloseScheduled, nextId |-> nextId]

SetToast(ts) ==
  /\ notices' = ts.notices
  /\ timers' = ts.timers
  /\ onCloseScheduled' = ts.onClose
  /\ nextId' = ts.nextId

(* getNoticeKey: `notice-${time}-${notices.length}`.  The formatted string *)
(* is only ever compared for equality and the format is injective, so the  *)
(* key is kept as the pair it is formatted from.                           *)
getNoticeKey(ns, t) == <<t, Len(ns)>>

(* The disabled alternative of addNotice: notices.push(notice). *)
PushNotice(ns, n) == Append(ns, n)

(* notices[0] = notice *)
SetFirst(ns, n) == IF ns = <<>> THEN <<n>> ELSE [ns EXCEPT ![1] = n]

(* addNotice(notice) at time t; the closer it returns captures the key. *)
addNotice(ts, t, type, duration, hasOnClose) ==
  LET key == getNoticeKey(ts.notices, t)
      n == [id |-> ts.nextId, key |-> key, type |-> type,
            duration |-> duration, onClose |-> hasOnClose]
  IN [notices |-> SetFirst(ts.notices, n),
      timers |-> IF duration > 0
                   THEN Append(ts.timers, [key |-> key, due |-> t + duration, id |-> ts.nextId])
                   ELSE ts.timers,
      onClose |-> ts.onClose,
      nextId |-> ts.nextId + 1]

(* removeNotice(key): the filter drops every notice with that key and      *)
(* schedules its onClose.                                                  *)
removeNotice(ts, key) ==
  LET gone == SelectSeq(ts.notices, LAMBDA n : n.key = key /\ n.onClose)
  IN [notices |-> SelectSeq(ts.notices, LAMBDA n : n.key # key),
      timers |-> ts.timers,
      onClose |-> ts.onClose \o [i \in 1..Len(gone) |-> gone[i].id],
      nextId |-> ts.nextId]

(* The setTimeout callback of addNotice: timers of equal duration run in   *)
(* the order they were set, none before it is due.                         *)
TimerFire ==
  /\ timers # <<>>
  /\ Head(timers).due <= now
  /\ SetToast(removeNotice([CurToast EXCEPT !.timers = Tail(timers)], Head(timers).key))
  /\ lastEvent' = [op |-> "timer", id |-> Head(timers).id, key |-> Head(timers).key]
  /\ UNCHANGED <<now, closers, displayStyle, name, cookie, invs, sent, httpPosts, opens, flatVars,
                 listVars, httpGets>>

(* Time passes. *)
Tick ==
  /\ now < MaxTicks * TickMs
  /\ now' = now + TickMs
  /\ UNCHANGED <<notices, timers, onCloseScheduled, nextId, closers, displayStyle, name,
                 cookie, invs, sent, httpPosts, opens, lastEvent, flatVars, listVars, httpGets>>

(* notice(type, content, duration, onClose) called by some client. *)
NoticeKinds ==
  {[type |-> "loading", duration |-> LoadingDuration],
   [type |-> "success", duration |-> NoticeDuration],
   [type |-> "error", duration |-> NoticeDuration]}

ToastAdd(k, hasOnClose) ==
  /\ nextId < MaxNotices
  /\ SetToast(addNotice(CurToast, now, k.type, k.duration, hasOnClose))
  /\ closers' = closers \cup {[id |-> nextId, key |-> getNoticeKey(notices, now)]}
  /\ lastEvent' = [op |-> "add", id |-> nextId, key |-> getNoticeKey(notices, now)]
  /\ UNCHANGED <<now, displayStyle, name, cookie, invs, sent, httpPosts, opens, flatVars,
                 listVars, httpGets>>

(* A client calls the closer addNotice returned for notice c.id. *)
ToastClose(c) ==
  /\ SetToast(removeNotice(CurToast, c.key))
  /\ lastEvent' = [op |-> "close", id |-> c.id, key |-> c.key]
  /\ UNCHANGED <<now, closers, displayStyle, name, cookie, invs, sent, httpPosts, opens, flatVars,
                 listVars, httpGets>>

InitToast ==
  /\ notices = <<>>
  /\ timers = <<>>
  /\ onCloseScheduled = <<>>
  /\ now = 0
  /\ nextId = 0
  /\ closers = {}

InitComp ==
  /\ displayStyle = TRUE
  /\ name = <<>>
  /\ cookie = <<>>
  /\ invs = <<>>
  /\ sent = <<>>
  /\ httpPosts = <<>>
  /\ opens = <<>>
  /\ lastEvent = [op |-> "init"]

InitFlat ==
  /\ catalog = [datasets |-> <<>>]
  /\ flat = <<>>
  /\ flatDone = FALSE

(* No session list is mounted and no request has been made. *)
InitNoList ==
  /\ running = <<>>
  /\ rows = <<>>
  /\ emitted = 0
  /\ httpGets = <<>>

InitToastSpec == InitToast /\ InitComp /\ InitFlat /\ InitNoList

NextToast ==
  \/ \E k \in NoticeKinds, h \in BOOLEAN : ToastAdd(k, h)
  \/ \E c \in closers : ToastClose(c)
  \/ TimerFire
  \/ Tick

SpecToast == InitToastSpec /\ [][NextToast]_vars

----------------------------------------------------------------------------
(* SpecFlatten: Flatten applied to every catalog within the bounds. *)

SampleChoices ==
  {[datasetsId |-> 7, key |-> "k1", dsId |-> 70],
   [datasetsId |-> 8, key |-> "k2", dsId |-> 71]}

RECURSIVE SeqsUpTo(_, _)
SeqsUpTo(S, n) ==
  IF n = 0 THEN {<<>>}
  ELSE LET shorter == SeqsUpTo(S, n - 1)
       IN shorter \cup {Append(q, x) : q \in {r \in shorter : Len(r) = n - 1}, x \in S}

DatasetChoices ==
  {[dataSourceId |-> h.dataSourceId, dataSourceName |-> h.dataSourceName,
    userId |-> h.userId, username |-> h.username, samples |-> ss] :
     h \in {[dataSourceId |-> 435, dataSourceName |-> "demo", userId |-> 8, username |-> "admin1"],
            [dataSourceId |-> 499, dataSourceName |-> "city", userId |-> 2, username |-> "admin"]},
     ss \in SeqsUpTo(SampleChoices, MaxSamples)}

FlattenInputs == {[datasets |-> d] : d \in SeqsUpTo(DatasetChoices, MaxDatasets)}

InitFlatten ==
  /\ InitToast
  /\ InitComp
  /\ catalog \in FlattenInputs
  /\ flat = <<>>
  /\ flatDone = FALSE
  /\ InitNoList

DoFlatten ==
  /\ ~flatDone
  /\ flat' = Flatten(catalog)
  /\ flatDone' = TRUE
  /\ UNCHANGED <<catalog, toastVars, compVars, listVars, httpGets>>

SpecFlatten == InitFlatten /\ [][DoFlatten]_vars

----------------------------------------------------------------------------
(* The sessions panel: RunningSessionsComponent, Item, getCookie.          *)

MaxInv == 2          \* bind / unbind clicks
MaxOut == 2          \* IOPub messages delivered in a run
MaxOpens == 3        \* open requests

(* Session models handed out by manager.sessions.running(). *)
SessA == [name |-> <<>>, path |-> <<"a", ".", "b">>, type |-> "notebook"]
SessB == [name |-> <<"c", ".", "e">>, path |-> <<"d", "/", "c", ".", "e">>, type |-> "Console"]
SessC == [name |-> <<"n">>, path |-> <<"f", ".", "g">>, type |-> "file"]
Sessions == {SessA, SessB, SessC}

(* label={m => m.name || PathExt.basename(m.path)} *)
label(m) == IF m.name # <<>> THEN m.name ELSE Basename(m.path)

(* A filter that looks at the label only. *)
filterByLabelOnly(m) == IndexOf(label(m), <<".">>) # -1

(* filterRunning *)
filterRunning(m) == IndexOf(label(m), <<".">>) # -1 \/ m.name # <<>>

(* List and ListView: one Item per model of models.filter(filterRunning),   *)
(* in the order of models, showing props.label(model).                      *)
render(models) ==
  LET kept == SelectSeq(models, filterRunning)
  IN [i \in 1..Len(kept) |-> [model |-> kept[i], label |-> label(kept[i])]]

(* toArray(props.manager.running()) when the panel is mounted. *)
InitialModels == <<SessA, SessB, SessC>>

(* UseSignal starts from initialArgs; no GET has been issued. *)
InitList ==
  /\ running = InitialModels
  /\ rows = render(InitialModels)
  /\ emitted = 0
  /\ httpGets = <<>>

(* The bind button of the older Item: no display style at all. *)
BindAlwaysShown(m) == TRUE

(* Item: the display style of the unbind and of the bind button. *)
UnbindShown(m) == IF displayStyle THEN FALSE ELSE label(m) = name
BindShown(m) == IF displayStyle THEN TRUE ELSE ~(label(m) = name)

(* document.cookie values the model draws from. *)
CookieJars ==
  {<<>>,
   <<"u", "s", "e", "r", "n", "a", "m", "e", "=", "u">>,
   <<"s", "=", "1", ";", " ", "u", "s", "e", "r", "n", "a", "m", "e", "=", "a", "%", "4", "0", "b", ";", " ", "t", "=", "2">>}

MainCookieJars == {c \in CookieJars : Len(c) > 10}

(* unescape(): %XX becomes the character of that code; anything else is    *)
(* copied.  The table holds the codes that occur in CookieJars.            *)
HexCodes == {<<"4", "0">>, <<"2", "0">>}
HexChar(h) == IF h = <<"4", "0">> THEN "@" ELSE " "
RECURSIVE unescape(_)
unescape(str) ==
  IF str = <<>> THEN <<>>
  ELSE IF str[1] = "%" /\ Len(str) >= 3 /\ SubSeq(str, 2, 3) \in HexCodes
         THEN <<HexChar(SubSeq(str, 2, 3))>> \o unescape(SubSeq(str, 4, Len(str)))
         ELSE <<str[1]>> \o unescape(Tail(str))

\* getCookie(name): the first place of document.cookie where name and "=" stand
\* at the start or after a space; the value runs to the next ";" or to the end
\* and is returned unescaped.  "none" stands for null.
getCookie(doc, cname) ==
  LET pat == cname \o <<"=">>
      starts == {p \in 1..Len(doc) :
                   /\ p = 1 \/ doc[p - 1] = " "
                   /\ p + Len(pat) - 1 <= Len(doc)
                   /\ SubSeq(doc, p, p + Len(pat) - 1) = pat}
  IN IF starts = {} THEN "none"
     ELSE LET p == CHOOSE q \in starts : \A r \in starts : q <= r
              from == p + Len(pat)
              stops == {e \in from..Len(doc) : doc[e] = ";"}
              upto == IF stops = {} THEN Len(doc)
                      ELSE (CHOOSE e \in stops : \A f \in stops : e <= f) - 1
          IN unescape(SubSeq(doc, from, upto))

USERNAME == <<"u", "s", "e", "r", "n", "a", "m", "e">>

(* String concatenation with a value that may be null. *)
Str(v) == IF v = "none" THEN NULL_STR ELSE v

(* getCookie('username') + '@' + m.path *)
TaskId(doc, m) == Str(getCookie(doc, USERNAME)) \o <<"@">> \o m.path

(* IOPub message contents: hasText is whether content.text is present. *)
NoTextMsg == [hasText |-> FALSE, text |-> <<>>]
TextMsg(t) == [hasText |-> TRUE, text |-> t]
BindMessages ==
  {NoTextMsg,
   TextMsg(<<">", " ">> \o BIND_SUCCESSED \o <<"!">>),
   TextMsg(BINDING_FAILS),
   TextMsg(<<"o", "k">>)}
QuitMessages ==
  {NoTextMsg,
   TextMsg(QUIT_SUCCESSED),
   TextMsg(<<"e", ":", " ">> \o QUIT_FAILS),
   TextMsg(<<"o", "k">>)}

(* A handler that only tests that the message carries a text. *)
TextHasAny(msg, needle) == msg.hasText /\ msg.text # <<>>

(* The comparison written as > 0: a needle at the very start is missed. *)
TextHasLater(msg, needle) == msg.hasText /\ msg.text # <<>> /\ IndexOf(msg.text, needle) > 0

(* a.text && a.text.indexOf(needle) > -1 *)
TextHas(msg, needle) == msg.hasText /\ msg.text # <<>> /\ IndexOf(msg.text, needle) > -1

(* checkDataArr.splice(i, 1), i counted from 1 here. *)
Splice(arr, i) == SubSeq(arr, 1, i - 1) \o SubSeq(arr, i + 1, Len(arr))

(* for (let i in checkDataArr) if (checkDataArr[i].id === item.id)          *)
(* checkDataArr.splice(i, 1): for-in visits the keys the array had when the *)
(* loop began, skipping a key that no longer exists when its turn comes.    *)
(* arr holds indices into posts (references to the item objects).           *)
RECURSIVE UncheckLoop(_, _, _, _, _)
UncheckLoop(arr, posts, id, i, n) ==
  IF i > n THEN arr
  ELSE IF i <= Len(arr) /\ posts[arr[i]].id = id
         THEN UncheckLoop(Splice(arr, i), posts, id, i + 1, n)
         ELSE UncheckLoop(arr, posts, id, i + 1, n)

(* The checkbox onChange handler on item k: new [posts, checkDataArr]. *)
OnCheck(posts, arr, k) ==
  LET flipped == [posts EXCEPT ![k].isChecked = ~posts[k].isChecked]
  IN [posts |-> flipped,
      checkDataArr |-> IF flipped[k].isChecked
                         THEN Append(arr, k)
                         ELSE UncheckLoop(arr, flipped, flipped[k].id, 1, Len(arr))]

(* '("' + varName + '", ' + dsId + ', ' + dataSetId + ', ' + id + ')' *)
TupleStr(e) ==
  <<"(", "\"">> \o e.varName \o <<"\"", ",", " ">> \o NatToStr(e.dsId) \o <<",", " ">>
    \o NatToStr(e.dataSetId) \o <<",", " ">> \o NatToStr(e.id) \o <<")">>

(* The loop of the dialog continuation: arr and bindDatasets. *)
SourcesArr(posts, arr) == [v \in 1..Len(arr) |-> TupleStr(posts[arr[v]])]

(* A body forwarding the selected entries themselves. *)
BindDatasetsVerbatim(posts, arr) == [v \in 1..Len(arr) |-> posts[arr[v]]]

BindDatasets(posts, arr) ==
  [v \in 1..Len(arr) |-> [id |-> posts[arr[v]].id, varName |-> posts[arr[v]].varName]]

(* let code = '% bind --task="' + ... + '" --sources=[' + arr.join(',') + ']' *)
BindCode(task, posts, arr) ==
  BIND_PREFIX \o task \o BIND_MIDDLE \o Join(SourcesArr(posts, arr), <<",">>) \o <<"]">>

(* An open handler that compares the type as it is written. *)
OpenCommandExact(m) ==
  [command |-> IF m.type = "console" THEN "console:open" ELSE "docmanager:open",
   path |-> m.path]

(* The handler index.ts connects to sessionOpenRequested. *)
OpenCommand(m) ==
  [command |-> IF m.type \in {"console", "Console", "CONSOLE"} THEN "console:open"
               ELSE "docmanager:open",
   path |-> m.path]

NoKey == <<-1, -1>>

NewInv(kind, m, pc, fetch, hideKey) ==
  [kind |-> kind, m |-> m, pc |-> pc, fetch |-> fetch, hideKey |-> hideKey, launch |-> 0,
   posts |-> <<>>, checkDataArr |-> <<>>, bindDatasets |-> <<>>, outputs |-> 0]

DialogShown == \E i \in 1..Len(invs) : invs[i].pc = "dialog"

(* showDialog: Dialog.launch shows the dialog once every dialog launched    *)
(* before it has been closed; a shown dialog is modal.                      *)
Launched == {i \in 1..Len(invs) : invs[i].launch > 0}
LaunchNo == 1 + Cardinality(Launched)
RECURSIVE OutputsIn(_)
OutputsIn(list) == IF list = <<>> THEN 0 ELSE Head(list).outputs + OutputsIn(Tail(list))

PcOnLaunch == IF \E i \in 1..Len(invs) : invs[i].pc \in {"dialog", "queued"}
              THEN "queued" ELSE "dialog"

(* The invocations after dialog i was closed with new program counter pc:   *)
(* the dialog launched next, if one waits, is shown.                        *)
AfterClose(list, i) ==
  LET waiting == {j \in 1..Len(list) : list[j].pc = "queued"}
  IN IF waiting = {} THEN list
     ELSE LET j == CHOOSE x \in waiting : \A y \in waiting : list[x].launch <= list[y].launch
          IN [list EXCEPT ![j].pc = "dialog"]

(* Catalog responses of GET api/datasets/list. *)
DsDemo(ss) == [dataSourceId |-> 435, dataSourceName |-> "demo", userId |-> 8,
               username |-> "admin1", samples |-> ss]
DsCity(ss) == [dataSourceId |-> 499, dataSourceName |-> "city", userId |-> 2,
               username |-> "admin", samples |-> ss]
Sample7 == [datasetsId |-> 7, key |-> "k1", dsId |-> 70]
Sample8 == [datasetsId |-> 8, key |-> "k2", dsId |-> 71]
Sample7b == [datasetsId |-> 7, key |-> "k3", dsId |-> 72]
CatalogDistinct == [datasets |-> <<DsDemo(<<Sample7, Sample8>>), DsCity(<<>>)>>]
CatalogSameId == [datasets |-> <<DsDemo(<<Sample7>>), DsCity(<<Sample7b>>)>>]
CatalogOne == [datasets |-> <<DsCity(<<Sample8>>)>>]
CatalogEmpty == [datasets |-> <<>>]
Catalogs == {CatalogOne}
DialogCatalogs == {CatalogDistinct, CatalogSameId, CatalogOne, CatalogEmpty}

(* Texts typed into the variable-name box. *)
DialogVarNames == {<<"x">>, <<"y", "1">>}

(* bind={m => ...}: the click on a row's bind button. *)
BindClick(m) ==
  /\ Len(invs) < MaxInv
  /\ ~DialogShown
  /\ BindShown(m)
  /\ SetToast(addNotice(CurToast, now, "loading", LoadingDuration, TRUE))
  /\ invs' = Append(invs, NewInv("bind", m, "fetching", "pending", getNoticeKey(notices, now)))
  /\ lastEvent' = [op |-> "bindClick", inv |-> Len(invs) + 1]
  /\ UNCHANGED <<now, closers, displayStyle, name, cookie, sent, httpPosts, opens, flatVars,
                 listVars, httpGets>>

(* A handler whose list outlives the invocation: the entries of the        *)
(* invocation before, as they were left, are shown again.                   *)
FetchResolveKeepsList(i, data) ==
  /\ invs[i].kind = "bind"
  /\ invs[i].pc = "fetching"
  /\ SetToast(removeNotice(CurToast, invs[i].hideKey))
  /\ LET kept == i > 1 /\ invs[i - 1].posts # <<>>
     IN invs' = [invs EXCEPT ![i].pc = PcOnLaunch, ![i].fetch = "resolved",
                             ![i].launch = LaunchNo,
                             ![i].posts = IF kept THEN invs[i - 1].posts ELSE Flatten(data),
                             ![i].checkDataArr = IF kept THEN invs[i - 1].checkDataArr
                                                 ELSE <<>>]
  /\ lastEvent' = [op |-> "fetchResolve", inv |-> i]
  /\ UNCHANGED <<now, closers, displayStyle, name, cookie, sent, httpPosts, opens, flatVars,
                 listVars, httpGets>>

(* The second continuation of the catalog fetch: hideLoading, flatten,      *)
(* build the checklist, showDialog.                                         *)
FetchResolve(i, data) ==
  /\ invs[i].kind = "bind"
  /\ invs[i].pc = "fetching"
  /\ SetToast(removeNotice(CurToast, invs[i].hideKey))
  /\ invs' = [invs EXCEPT ![i].pc = PcOnLaunch, ![i].fetch = "resolved",
                          ![i].launch = LaunchNo, ![i].posts = Flatten(data)]
  /\ lastEvent' = [op |-> "fetchResolve", inv |-> i]
  /\ UNCHANGED <<now, closers, displayStyle, name, cookie, sent, httpPosts, opens, flatVars,
                 listVars, httpGets>>

(* A rejection handler that goes on to the dialog with an empty list. *)
FetchFailShowsDialog(i) ==
  /\ invs[i].kind = "bind"
  /\ invs[i].pc = "fetching"
  /\ SetToast(removeNotice(CurToast, invs[i].hideKey))
  /\ invs' = [invs EXCEPT ![i].pc = PcOnLaunch, ![i].fetch = "failed",
                          ![i].launch = LaunchNo]
  /\ lastEvent' = [op |-> "fetchFail", inv |-> i]
  /\ UNCHANGED <<now, closers, displayStyle, name, cookie, sent, httpPosts, opens, flatVars,
                 listVars, httpGets>>

(* The fetch rejects or response.json() throws: no continuation runs. *)
FetchFail(i) ==
  /\ invs[i].kind = "bind"
  /\ invs[i].pc = "fetching"
  /\ invs' = [invs EXCEPT ![i].pc = "failed", ![i].fetch = "failed"]
  /\ lastEvent' = [op |-> "fetchFail", inv |-> i]
  /\ UNCHANGED <<toastVars, displayStyle, name, cookie, sent, httpPosts, opens, flatVars,
                 listVars, httpGets>>

(* A checkbox handler over entries that every open invocation shares. *)
ToggleShared(i, k) ==
  /\ invs[i].pc = "dialog"
  /\ k \in 1..Len(invs[i].posts)
  /\ invs' = [j \in 1..Len(invs) |->
               IF k \in 1..Len(invs[j].posts) /\ invs[j].pc \in {"dialog", "queued"}
                 THEN LET r == OnCheck(invs[j].posts, invs[j].checkDataArr, k)
                      IN [invs[j] EXCEPT !.posts = r.posts, !.checkDataArr = r.checkDataArr]
                 ELSE invs[j]]
  /\ lastEvent' = [op |-> "toggle", inv |-> i, k |-> k]
  /\ UNCHANGED <<toastVars, displayStyle, name, cookie, sent, httpPosts, opens, flatVars,
                 listVars, httpGets>>

(* The checkbox of row k of the shown dialog changes. *)
Toggle(i, k) ==
  /\ invs[i].pc = "dialog"
  /\ k \in 1..Len(invs[i].posts)
  /\ LET r == OnCheck(invs[i].posts, invs[i].checkDataArr, k)
     IN invs' = [invs EXCEPT ![i].posts = r.posts, ![i].checkDataArr = r.checkDataArr]
  /\ lastEvent' = [op |-> "toggle", inv |-> i, k |-> k]
  /\ UNCHANGED <<toastVars, displayStyle, name, cookie, sent, httpPosts, opens, flatVars,
                 listVars, httpGets>>

(* The text box of row k changes to v. *)
TypeVarName(i, k, v) ==
  /\ invs[i].pc = "dialog"
  /\ k \in 1..Len(invs[i].posts)
  /\ invs[i].posts[k].varName # v
  /\ invs' = [invs EXCEPT ![i].posts[k].varName = v]
  /\ lastEvent' = [op |-> "type", inv |-> i, k |-> k]
  /\ UNCHANGED <<toastVars, displayStyle, name, cookie, sent, httpPosts, opens, flatVars,
                 listVars, httpGets>>

(* The branch of the dialog continuation taken whatever the button. *)
AlwaysAccepted(accept) == TRUE

(* if (result.button.accept) *)
Accepted(accept) == accept

(* showDialog(...).then(result => ...): the dialog is closed with the bind  *)
(* button (accept) or dismissed.                                            *)
DialogClose(i, accept) ==
  /\ invs[i].kind = "bind"
  /\ invs[i].pc = "dialog"
  /\ LET inv == invs[i]
         code == BindCode(TaskId(cookie, inv.m), inv.posts, inv.checkDataArr)
     IN IF Accepted(accept)
          THEN /\ opens' = Append(opens, OpenCommand(inv.m))
               /\ sent' = Append(sent, [inv |-> i, path |-> inv.m.path, code |-> code])
               /\ invs' = AfterClose([invs EXCEPT ![i].pc = "sent",
                             ![i].bindDatasets = BindDatasets(inv.posts, inv.checkDataArr)], i)
          ELSE /\ invs' = AfterClose([invs EXCEPT ![i].pc = "cancelled"], i)
               /\ UNCHANGED <<opens, sent>>
  /\ lastEvent' = [op |-> "dialogClose", inv |-> i, accept |-> accept]
  /\ UNCHANGED <<toastVars, displayStyle, name, cookie, httpPosts, flatVars, listVars, httpGets>>

(* A bind handler that sends the command again when told it failed. *)
BindOutputRetry(i, msg) ==
  /\ invs[i].kind = "bind"
  /\ invs[i].pc = "sent"
  /\ OutputsIn(invs) < MaxOut
  /\ LET ok == TextHas(msg, BIND_SUCCESSED)
         failed == TextHas(msg, BINDING_FAILS)
         ts1 == IF ok THEN addNotice(CurToast, now, "success", NoticeDuration, TRUE)
                ELSE CurToast
         ts2 == IF failed THEN addNotice(ts1, now, "error", NoticeDuration, TRUE) ELSE ts1
     IN /\ httpPosts' = IF ok
                          THEN Append(httpPosts,
                                 [inv |-> i, action |-> "bind",
                                  notebookId |-> TaskId(cookie, invs[i].m),
                                  datasets |-> invs[i].bindDatasets])
                          ELSE httpPosts
        /\ displayStyle' = IF ok THEN FALSE ELSE displayStyle
        /\ name' = IF ok THEN invs[i].m.path ELSE name
        /\ sent' = IF failed
                     THEN Append(sent, [inv |-> i, path |-> invs[i].m.path,
                                        code |-> BindCode(TaskId(cookie, invs[i].m),
                                                          invs[i].posts, invs[i].checkDataArr)])
                     ELSE sent
        /\ SetToast(ts2)
  /\ invs' = [invs EXCEPT ![i].outputs = @ + 1]
  /\ lastEvent' = [op |-> "bindOutput", inv |-> i, msg |-> msg]
  /\ UNCHANGED <<now, closers, cookie, opens, flatVars, listVars, httpGets>>

(* future.onIOPub of an accepted bind. *)
BindOutput(i, msg) ==
  /\ invs[i].kind = "bind"
  /\ invs[i].pc = "sent"
  /\ OutputsIn(invs) < MaxOut
  /\ LET ok == TextHas(msg, BIND_SUCCESSED)
         ts1 == IF ok THEN addNotice(CurToast, now, "success", NoticeDuration, TRUE)
                ELSE CurToast
         ts2 == IF TextHas(msg, BINDING_FAILS)
                  THEN addNotice(ts1, now, "error", NoticeDuration, TRUE) ELSE ts1
     IN /\ httpPosts' = IF ok
                          THEN Append(httpPosts,
                                 [inv |-> i, action |-> "bind",
                                  notebookId |-> TaskId(cookie, invs[i].m),
                                  datasets |-> invs[i].bindDatasets])
                          ELSE httpPosts
        /\ displayStyle' = IF ok THEN FALSE ELSE displayStyle
        /\ name' = IF ok THEN invs[i].m.path ELSE name
        /\ SetToast(ts2)
  /\ invs' = [invs EXCEPT ![i].outputs = @ + 1]
  /\ lastEvent' = [op |-> "bindOutput", inv |-> i, msg |-> msg]
  /\ UNCHANGED <<now, closers, cookie, sent, opens, flatVars, listVars, httpGets>>

(* unbind={m => ...}: the click on a row's unbind button. *)
UnbindClick(m) ==
  /\ Len(invs) < MaxInv
  /\ ~DialogShown
  /\ UnbindShown(m)
  /\ opens' = Append(opens, OpenCommand(m))
  /\ sent' = Append(sent, [inv |-> Len(invs) + 1, path |-> m.path, code |-> QUIT_CODE])
  /\ invs' = Append(invs, NewInv("unbind", m, "sent", "none", NoKey))
  /\ lastEvent' = [op |-> "unbindClick", inv |-> Len(invs) + 1]
  /\ UNCHANGED <<toastVars, displayStyle, name, cookie, httpPosts, flatVars, listVars, httpGets>>

(* An unbind handler that also tells the backend of the unbind. *)
UnbindOutputPosts(i, msg) ==
  /\ invs[i].kind = "unbind"
  /\ invs[i].pc = "sent"
  /\ OutputsIn(invs) < MaxOut
  /\ LET ok == TextHas(msg, QUIT_SUCCESSED)
         ts1 == IF ok THEN addNotice(CurToast, now, "success", NoticeDuration, TRUE)
                ELSE CurToast
         ts2 == IF TextHas(msg, QUIT_FAILS)
                  THEN addNotice(ts1, now, "error", NoticeDuration, TRUE) ELSE ts1
     IN /\ httpPosts' = IF ok
                          THEN Append(httpPosts,
                                 [inv |-> i, action |-> "unbind",
                                  notebookId |-> TaskId(cookie, invs[i].m),
                                  datasets |-> <<>>])
                          ELSE httpPosts
        /\ displayStyle' = IF ok THEN TRUE ELSE displayStyle
        /\ name' = IF ok THEN invs[i].m.path ELSE name
        /\ SetToast(ts2)
  /\ invs' = [invs EXCEPT ![i].outputs = @ + 1]
  /\ lastEvent' = [op |-> "unbindOutput", inv |-> i, msg |-> msg]
  /\ UNCHANGED <<now, closers, cookie, sent, opens, flatVars, listVars, httpGets>>

(* An unbind handler whose setState calls stand outside the if. *)
UnbindOutputAnyText(i, msg) ==
  /\ invs[i].kind = "unbind"
  /\ invs[i].pc = "sent"
  /\ OutputsIn(invs) < MaxOut
  /\ LET ok == TextHas(msg, QUIT_SUCCESSED)
         ts1 == IF ok THEN addNotice(CurToast, now, "success", NoticeDuration, TRUE)
                ELSE CurToast
         ts2 == IF TextHas(msg, QUIT_FAILS)
                  THEN addNotice(ts1, now, "error", NoticeDuration, TRUE) ELSE ts1
     IN /\ displayStyle' = TRUE
        /\ name' = invs[i].m.path
        /\ SetToast(ts2)
  /\ invs' = [invs EXCEPT ![i].outputs = @ + 1]
  /\ lastEvent' = [op |-> "unbindOutput", inv |-> i, msg |-> msg]
  /\ UNCHANGED <<now, closers, cookie, sent, httpPosts, opens, flatVars, listVars, httpGets>>

(* future.onIOPub of an unbind. *)
UnbindOutput(i, msg) ==
  /\ invs[i].kind = "unbind"
  /\ invs[i].pc = "sent"
  /\ OutputsIn(invs) < MaxOut
  /\ LET ok == TextHas(msg, QUIT_SUCCESSED)
         ts1 == IF ok THEN addNotice(CurToast, now, "success", NoticeDuration, TRUE)
                ELSE CurToast
         ts2 == IF TextHas(msg, QUIT_FAILS)
                  THEN addNotice(ts1, now, "error", NoticeDuration, TRUE) ELSE ts1
     IN /\ displayStyle' = IF ok THEN TRUE ELSE displayStyle
        /\ name' = IF ok THEN invs[i].m.path ELSE name
        /\ SetToast(ts2)
  /\ invs' = [invs EXCEPT ![i].outputs = @ + 1]
  /\ lastEvent' = [op |-> "unbindOutput", inv |-> i, msg |-> msg]
  /\ UNCHANGED <<now, closers, cookie, sent, httpPosts, opens, flatVars, listVars, httpGets>>

(* getBoundData={m => ...}: the click on a row's data button; the GET is    *)
(* addressed with the username cookie as it is now.                         *)
DataClick(m) ==
  /\ Len(invs) < MaxInv
  /\ ~DialogShown
  /\ SetToast(addNotice(CurToast, now, "loading", LoadingDuration, TRUE))
  /\ httpGets' = Append(httpGets, [inv |-> Len(invs) + 1, notebookId |-> TaskId(cookie, m),
                                   after |-> Len(httpPosts)])
  /\ invs' = Append(invs, NewInv("data", m, "fetching", "pending", getNoticeKey(notices, now)))
  /\ lastEvent' = [op |-> "dataClick", inv |-> Len(invs) + 1]
  /\ UNCHANGED <<now, closers, displayStyle, name, cookie, sent, httpPosts, opens, flatVars,
                 listVars>>

(* A continuation that forgets to call hideLoading. *)
DataResolveNoHide(i) ==
  /\ invs[i].kind = "data"
  /\ invs[i].pc = "fetching"
  /\ invs' = [invs EXCEPT ![i].pc = PcOnLaunch, ![i].fetch = "resolved",
                          ![i].launch = LaunchNo]
  /\ lastEvent' = [op |-> "dataResolve", inv |-> i]
  /\ UNCHANGED <<toastVars, displayStyle, name, cookie, sent, httpPosts, opens, flatVars,
                 listVars, httpGets>>

(* The second continuation of the binds fetch: hideLoading, showDialog. *)
DataResolve(i) ==
  /\ invs[i].kind = "data"
  /\ invs[i].pc = "fetching"
  /\ SetToast(removeNotice(CurToast, invs[i].hideKey))
  /\ invs' = [invs EXCEPT ![i].pc = PcOnLaunch, ![i].fetch = "resolved",
                          ![i].launch = LaunchNo]
  /\ lastEvent' = [op |-> "dataResolve", inv |-> i]
  /\ UNCHANGED <<now, closers, displayStyle, name, cookie, sent, httpPosts, opens, flatVars,
                 listVars, httpGets>>

(* The binds fetch rejects or its body does not parse. *)
DataFail(i) ==
  /\ invs[i].kind = "data"
  /\ invs[i].pc = "fetching"
  /\ invs' = [invs EXCEPT ![i].pc = "failed", ![i].fetch = "failed"]
  /\ lastEvent' = [op |-> "dataFail", inv |-> i]
  /\ UNCHANGED <<toastVars, displayStyle, name, cookie, sent, httpPosts, opens, flatVars,
                 listVars, httpGets>>

(* The list of bound data is closed: if (result.button.accept) {} *)
DataClose(i) ==
  /\ invs[i].kind = "data"
  /\ invs[i].pc = "dialog"
  /\ invs' = AfterClose([invs EXCEPT ![i].pc = "closed"], i)
  /\ lastEvent' = [op |-> "dataClose", inv |-> i]
  /\ UNCHANGED <<toastVars, displayStyle, name, cookie, sent, httpPosts, opens, flatVars,
                 listVars, httpGets>>

(* document.cookie is replaced: a login, a logout or an expiry. *)
(* onClick of a row's label: props.openRequested.emit(model). *)
LabelClick(m) ==
  /\ Len(opens) < MaxOpens
  /\ ~DialogShown
  /\ opens' = Append(opens, OpenCommand(m))
  /\ lastEvent' = [op |-> "labelClick", m |-> m]
  /\ UNCHANGED <<toastVars, displayStyle, name, cookie, invs, sent, httpPosts, flatVars,
                 listVars, httpGets>>

CookieChange(c) ==
  /\ c # cookie
  /\ cookie' = c
  /\ lastEvent' = [op |-> "cookie"]
  /\ UNCHANGED <<toastVars, displayStyle, name, invs, sent, httpPosts, opens, flatVars,
                 listVars, httpGets>>

Init ==
  /\ InitToast
  /\ displayStyle = TRUE
  /\ name = <<>>
  /\ cookie \in MainCookieJars
  /\ invs = <<>>
  /\ sent = <<>>
  /\ httpPosts = <<>>
  /\ opens = <<>>
  /\ lastEvent = [op |-> "init"]
  /\ InitFlat
  /\ InitList

Next ==
  \/ \E m \in {x \in Sessions : filterRunning(x)} : BindClick(m)
  \/ \E i \in 1..Len(invs), data \in Catalogs : FetchResolve(i, data)
  \/ \E i \in 1..Len(invs) : FetchFail(i)
  \/ \E i \in 1..Len(invs) : \E k \in 1..Len(invs[i].posts) : Toggle(i, k)
  \/ \E i \in 1..Len(invs), accept \in BOOLEAN : DialogClose(i, accept)
  \/ \E i \in 1..Len(invs), msg \in BindMessages : BindOutput(i, msg)
  \/ \E m \in {x \in Sessions : filterRunning(x)} : UnbindClick(m)
  \/ \E i \in 1..Len(invs), msg \in QuitMessages : UnbindOutput(i, msg)
  \/ TimerFire
  \/ Tick

Spec == Init /\ [][Next]_vars

----------------------------------------------------------------------------
(* SpecDialog: one bind invocation from the click on, with the catalogs,   *)
(* the checkbox changes and the typed names the dialog claims are about.   *)

DialogSession == SessB

InitDialog ==
  /\ notices = SetFirst(<<>>, [id |-> 0, key |-> getNoticeKey(<<>>, 0), type |-> "loading",
                               duration |-> LoadingDuration, onClose |-> TRUE])
  /\ timers = <<>>
  /\ onCloseScheduled = <<>>
  /\ now = 0
  /\ nextId = 1
  /\ closers = {}
  /\ displayStyle = TRUE
  /\ name = <<>>
  /\ cookie \in CookieJars
  /\ invs = <<NewInv("bind", DialogSession, "fetching", "pending", getNoticeKey(<<>>, 0))>>
  /\ sent = <<>>
  /\ httpPosts = <<>>
  /\ opens = <<>>
  /\ lastEvent = [op |-> "bindClick", inv |-> 1]
  /\ InitFlat
  /\ InitList

NextDialog ==
  \/ \E data \in DialogCatalogs : FetchResolve(1, data)
  \/ \E k \in 1..Len(invs[1].posts) : Toggle(1, k)
  \/ \E k \in 1..Len(invs[1].posts), v \in DialogVarNames : TypeVarName(1, k, v)
  \/ \E accept \in BOOLEAN : DialogClose(1, accept)
  \/ \E msg \in BindMessages : BindOutput(1, msg)

SpecDialog == InitDialog /\ [][NextDialog]_vars

----------------------------------------------------------------------------
(* SpecList: the session list under runningChanged emissions. *)

MaxModels == 3       \* sessions in a snapshot or an emission
MaxEmit == 2         \* runningChanged emissions

(* Sessions the filter drops: no name and no '.' in the basename. *)
SessD == [name |-> <<>>, path |-> <<"d", "/", "x">>, type |-> "file"]
SessE == [name |-> <<>>, path |-> <<"a", ".", "b", "/", "c">>, type |-> "notebook"]
ListSessions == Sessions \cup {SessD, SessE}
ModelLists == SeqsUpTo(ListSessions, MaxModels)

InitListSpec ==
  /\ InitToast
  /\ InitComp
  /\ InitFlat
  /\ running \in ModelLists
  /\ rows = render(running)
  /\ emitted = 0
  /\ httpGets = <<>>

(* manager.runningChanged emits args: UseSignal keeps them and renders. *)
RunningChanged(args) ==
  /\ emitted < MaxEmit
  /\ running' = args
  /\ rows' = render(args)
  /\ emitted' = emitted + 1
  /\ lastEvent' = [op |-> "runningChanged"]
  /\ UNCHANGED <<toastVars, displayStyle, name, cookie, invs, sent, httpPosts, opens,
                 flatVars, httpGets>>

NextList == \E args \in ModelLists : RunningChanged(args)

SpecList == InitListSpec /\ [][NextList]_vars

----------------------------------------------------------------------------
(* SpecOverlap: bind invocations that overlap, with the checkbox changes    *)
(* and typed names of their dialogs; the kernel answers with a success.     *)

OverlapSessions == {SessC}
OverlapVarNames == {<<"x">>}
OverlapMessages == {TextMsg(<<">", " ">> \o BIND_SUCCESSED \o <<"!">>)}

NextOverlap ==
  \/ \E m \in OverlapSessions : BindClick(m)
  \/ \E i \in 1..Len(invs), data \in Catalogs : FetchResolve(i, data)
  \/ \E i \in 1..Len(invs) : \E k \in 1..Len(invs[i].posts) : Toggle(i, k)
  \/ \E i \in 1..Len(invs) : \E k \in 1..Len(invs[i].posts) :
       \E v \in OverlapVarNames : TypeVarName(i, k, v)
  \/ \E i \in 1..Len(invs), accept \in BOOLEAN : DialogClose(i, accept)
  \/ \E i \in 1..Len(invs), msg \in OverlapMessages : BindOutput(i, msg)

SpecOverlap == Init /\ [][NextOverlap]_vars

----------------------------------------------------------------------------
(* SpecBoundData: a bind and the bound-data query of one session, while     *)
(* document.cookie changes.                                                 *)

BoundDataSession == SessB

InitBoundData ==
  /\ InitToast
  /\ displayStyle = TRUE
  /\ name = <<>>
  /\ cookie \in CookieJars
  /\ invs = <<>>
  /\ sent = <<>>
  /\ httpPosts = <<>>
  /\ opens = <<>>
  /\ lastEvent = [op |-> "init"]
  /\ InitFlat
  /\ InitList

NextBoundData ==
  \/ BindClick(BoundDataSession)
  \/ \E i \in 1..Len(invs), data \in Catalogs : FetchResolve(i, data)
  \/ \E i \in 1..Len(invs), accept \in BOOLEAN : DialogClose(i, accept)
  \/ \E i \in 1..Len(invs), msg \in BindMessages : BindOutput(i, msg)
  \/ DataClick(BoundDataSession)
  \/ \E i \in 1..Len(invs) : DataResolve(i)
  \/ \E i \in 1..Len(invs) : DataFail(i)
  \/ \E i \in 1..Len(invs) : DataClose(i)
  \/ \E c \in CookieJars : CookieChange(c)

SpecBoundData == InitBoundData /\ [][NextBoundData]_vars

----------------------------------------------------------------------------
(* SpecLoading: bind and bound-data queries of one session whose fetches    *)
(* resolve, with their loading notices, the success notices of the kernel's *)
(* answers and the clock.                                                   *)

LoadingSession == SessC
LoadingMessages == {TextMsg(<<">", " ">> \o BIND_SUCCESSED \o <<"!">>)}

NextLoading ==
  \/ BindClick(LoadingSession)
  \/ \E i \in 1..Len(invs), data \in Catalogs : FetchResolve(i, data)
  \/ \E i \in 1..Len(invs), accept \in BOOLEAN : DialogClose(i, accept)
  \/ \E i \in 1..Len(invs), msg \in LoadingMessages : BindOutput(i, msg)
  \/ DataClick(LoadingSession)
  \/ \E i \in 1..Len(invs) : DataResolve(i)
  \/ \E i \in 1..Len(invs) : DataClose(i)
  \/ TimerFire
  \/ Tick

SpecLoading == Init /\ [][NextLoading]_vars

----------------------------------------------------------------------------
(* SpecUnbind: one session bound, unbound and asked for its bound data, the *)
(* clock standing still.                                                    *)

UnbindSession == SessA

NextUnbind ==
  \/ BindClick(UnbindSession)
  \/ \E i \in 1..Len(invs), data \in Catalogs : FetchResolve(i, data)
  \/ \E i \in 1..Len(invs) : FetchFail(i)
  \/ \E i \in 1..Len(invs), accept \in BOOLEAN : DialogClose(i, accept)
  \/ \E i \in 1..Len(invs), msg \in BindMessages : BindOutput(i, msg)
  \/ UnbindClick(UnbindSession)
  \/ \E i \in 1..Len(invs), msg \in QuitMessages : UnbindOutput(i, msg)
  \/ DataClick(UnbindSession)
  \/ \E i \in 1..Len(invs) : DataResolve(i)
  \/ \E i \in 1..Len(invs) : DataFail(i)
  \/ \E i \in 1..Len(invs) : DataClose(i)

SpecUnbind == Init /\ [][NextUnbind]_vars

----------------------------------------------------------------------------
(* SpecOpen: the rows of a notebook session and a console session, with     *)
(* the clicks on their labels, on bind and unbind of the notebook and on    *)
(* the data button of the console; the kernels answer with the success      *)
(* texts, the clock standing still.                                         *)

OpenNotebook == SessA
OpenConsole == SessB
OpenSessions == {OpenNotebook, OpenConsole}
OpenBindMessages == {TextMsg(<<">", " ">> \o BIND_SUCCESSED \o <<"!">>)}
OpenQuitMessages == {TextMsg(QUIT_SUCCESSED)}

NextOpen ==
  \/ \E m \in OpenSessions : LabelClick(m)
  \/ BindClick(OpenNotebook)
  \/ \E i \in 1..Len(invs), data \in Catalogs : FetchResolve(i, data)
  \/ \E i \in 1..Len(invs), accept \in BOOLEAN : DialogClose(i, accept)
  \/ \E i \in 1..Len(invs), msg \in OpenBindMessages : BindOutput(i, msg)
  \/ UnbindClick(OpenNotebook)
  \/ \E i \in 1..Len(invs), msg \in OpenQuitMessages : UnbindOutput(i, msg)
  \/ DataClick(OpenConsole)
  \/ \E i \in 1..Len(invs) : DataResolve(i)
  \/ \E i \in 1..Len(invs) : DataClose(i)

SpecOpen == Init /\ [][NextOpen]_vars

----------------------------------------------------------------------------
(* SpecCycle: one session bound and unbound in turn, the clock standing     *)
(* still.                                                                   *)

CycleSession == SessA

NextCycle ==
  \/ BindClick(CycleSession)
  \/ \E i \in 1..Len(invs), data \in Catalogs : FetchResolve(i, data)
  \/ \E i \in 1..Len(invs) : FetchFail(i)
  \/ \E i \in 1..Len(invs) : \E k \in 1..Len(invs[i].posts) : Toggle(i, k)
  \/ \E i \in 1..Len(invs), accept \in BOOLEAN : DialogClose(i, accept)
  \/ \E i \in 1..Len(invs), msg \in BindMessages : BindOutput(i, msg)
  \/ UnbindClick(CycleSession)
  \/ \E i \in 1..Len(invs), msg \in QuitMessages : UnbindOutput(i, msg)

SpecCycle == Init /\ [][NextCycle]_vars

----------------------------------------------------------------------------
(* SpecDoc: the stateless panel of doc.tsx.  Its rows always show both      *)
(* buttons, it shows no notices and its IOPub handlers only log.            *)

(* let code = '% bind --task="' + m.name + '" --sources=[' + arr.join(',') + ']' *)
DocBindCode(m, posts, arr) ==
  BIND_PREFIX \o m.name \o BIND_MIDDLE \o Join(SourcesArr(posts, arr), <<",">>) \o <<"]">>

(* bind={m => ...}: the fetch is started, and without waiting for it the    *)
(* checklist is built from the still empty posts and showDialog is called.  *)
DocBindClick(m) ==
  /\ Len(invs) < MaxInv
  /\ ~DialogShown
  /\ invs' = Append(invs, [NewInv("bind", m, PcOnLaunch, "pending", NoKey)
                             EXCEPT !.launch = LaunchNo,
                                    !.posts = InitChecklist(<<>>)])
  /\ lastEvent' = [op |-> "bindClick", inv |-> Len(invs) + 1]
  /\ UNCHANGED <<toastVars, displayStyle, name, cookie, sent, httpPosts, opens, flatVars,
                 listVars, httpGets>>

(* The fetch continuation pushes into posts; the rows of the dialog were    *)
(* built before and stay as they are.                                       *)
DocFetchResolve(i, data) ==
  /\ invs[i].kind = "bind"
  /\ invs[i].fetch = "pending"
  /\ invs' = [invs EXCEPT ![i].fetch = "resolved"]
  /\ lastEvent' = [op |-> "fetchResolve", inv |-> i, entries |-> Len(FlattenLoop(data.datasets))]
  /\ UNCHANGED <<toastVars, displayStyle, name, cookie, sent, httpPosts, opens, flatVars,
                 listVars, httpGets>>

DocFetchFail(i) ==
  /\ invs[i].kind = "bind"
  /\ invs[i].fetch = "pending"
  /\ invs' = [invs EXCEPT ![i].fetch = "failed"]
  /\ lastEvent' = [op |-> "fetchFail", inv |-> i]
  /\ UNCHANGED <<toastVars, displayStyle, name, cookie, sent, httpPosts, opens, flatVars,
                 listVars, httpGets>>

DocDialogClose(i, accept) ==
  /\ invs[i].pc = "dialog"
  /\ LET inv == invs[i]
         code == DocBindCode(inv.m, inv.posts, inv.checkDataArr)
     IN IF accept
          THEN /\ opens' = Append(opens, OpenCommand(inv.m))
               /\ sent' = Append(sent, [inv |-> i, path |-> inv.m.path, code |-> code])
               /\ invs' = AfterClose([invs EXCEPT ![i].pc = "sent"], i)
          ELSE /\ invs' = AfterClose([invs EXCEPT ![i].pc = "cancelled"], i)
               /\ UNCHANGED <<opens, sent>>
  /\ lastEvent' = [op |-> "dialogClose", inv |-> i, accept |-> accept]
  /\ UNCHANGED <<toastVars, displayStyle, name, cookie, httpPosts, flatVars, listVars, httpGets>>

DocUnbindClick(m) ==
  /\ Len(invs) < MaxInv
  /\ ~DialogShown
  /\ opens' = Append(opens, OpenCommand(m))
  /\ sent' = Append(sent, [inv |-> Len(invs) + 1, path |-> m.path, code |-> QUIT_CODE])
  /\ invs' = Append(invs, NewInv("unbind", m, "sent", "none", NoKey))
  /\ lastEvent' = [op |-> "unbindClick", inv |-> Len(invs) + 1]
  /\ UNCHANGED <<toastVars, displayStyle, name, cookie, httpPosts, flatVars, listVars, httpGets>>

(* future.onIOPub = msg => console.log(msg.content) *)
DocOutput(i, msg) ==
  /\ invs[i].pc = "sent"
  /\ OutputsIn(invs) < MaxOut
  /\ invs' = [invs EXCEPT ![i].outputs = @ + 1]
  /\ lastEvent' = [op |-> "output", inv |-> i, msg |-> msg]
  /\ UNCHANGED <<toastVars, displayStyle, name, cookie, sent, httpPosts, opens, flatVars,
                 listVars, httpGets>>

NextDoc ==
  \/ \E m \in {x \in Sessions : filterRunning(x)} : DocBindClick(m)
  \/ \E i \in 1..Len(invs), data \in Catalogs : DocFetchResolve(i, data)
  \/ \E i \in 1..Len(invs) : DocFetchFail(i)
  \/ \E i \in 1..Len(invs), accept \in BOOLEAN : DocDialogClose(i, accept)
  \/ \E m \in {x \in Sessions : filterRunning(x)} : DocUnbindClick(m)
  \/ \E i \in 1..Len(invs), msg \in BindMessages \cup QuitMessages : DocOutput(i, msg)

SpecDoc == Init /\ [][NextDoc]_vars

----------------------------------------------------------------------------
(* Claims about the Toast component (SpecToast). *)

(* C1: after any sequence of addNotice and removeNotice calls, timer-driven *)
(* removals included, the notices list holds at most one notice, and when   *)
(* it holds one it is the notice added last.                                *)
C1_SingleLatestNotice ==
  /\ Len(notices) <= 1
  /\ notices # <<>> => notices[1].id = nextId - 1

(* A removal aimed at an older notice has run and the latest one is still   *)
(* the only notice listed.                                                  *)
C1_Witness ==
  /\ lastEvent.op \in {"timer", "close"}
  /\ Len(notices) = 1
  /\ notices[1].id = 2
  /\ lastEvent.id < 2

----------------------------------------------------------------------------
(* Claims about the catalog flattening (SpecFlatten). *)

RECURSIVE SamplesBefore(_, _)
SamplesBefore(dataArr, i) ==
  IF i <= 1 THEN 0 ELSE SamplesBefore(dataArr, i - 1) + Len(dataArr[i - 1].samples)

(* C3: the flattened list has one entry per sample of every dataset, in     *)
(* dataset order then sample order; id, key and dsId come from the sample,  *)
(* dataSetId, dataSetName, userId and username from its dataset, isChecked  *)
(* is false and varName is empty; a dataset without samples adds nothing.   *)
C3_FlattenOnePerSample ==
  flatDone =>
    LET d == catalog.datasets
    IN /\ Len(flat) = SamplesBefore(d, Len(d) + 1)
       /\ \A i \in 1..Len(d) : \A n \in 1..Len(d[i].samples) :
            LET e == flat[SamplesBefore(d, i) + n]
                s == d[i].samples[n]
            IN /\ e.id = s.datasetsId /\ e.key = s.key /\ e.dsId = s.dsId
               /\ e.dataSetId = d[i].dataSourceId
               /\ e.dataSetName = d[i].dataSourceName
               /\ e.userId = d[i].userId /\ e.username = d[i].username
               /\ e.isChecked = FALSE /\ e.varName = <<>>

(* A catalog whose first dataset has no samples and whose second has two    *)
(* different ones has been flattened.                                       *)
C3_Witness ==
  /\ flatDone
  /\ Len(catalog.datasets) = 2
  /\ catalog.datasets[1].samples = <<>>
  /\ Len(catalog.datasets[2].samples) = 2
  /\ catalog.datasets[2].samples[1] # catalog.datasets[2].samples[2]
  /\ Len(flat) = 2

----------------------------------------------------------------------------
(* Claims about the bind flow. *)

(* text contains needle: it is some prefix, then needle, then some suffix. *)
Contains(text, needle) ==
  \E a \in 0..Len(text) :
    /\ a + Len(needle) <= Len(text)
    /\ \A j \in 1..Len(needle) : text[a + j] = needle[j]

BindInvs == {i \in 1..Len(invs) : invs[i].kind = "bind"}

(* C2: in the bind handler the dataset dialog is opened, shown or confirmed *)
(* only after the catalog fetch of that invocation has resolved.            *)
C2_DialogAfterFetch ==
  \A i \in BindInvs :
    invs[i].pc \in {"queued", "dialog", "sent", "cancelled"} => invs[i].fetch = "resolved"

(* The rows whose checkbox is checked. *)
CheckedRows(posts) == {k \in 1..Len(posts) : posts[k].isChecked}

IsExactlyChecked(posts, arr) ==
  /\ {arr[v] : v \in 1..Len(arr)} = CheckedRows(posts)
  /\ Len(arr) = Cardinality(CheckedRows(posts))

(* C4: within one bind dialog, after any sequence of checkbox toggles,      *)
(* checkDataArr holds exactly the entries whose isChecked flag is true,     *)
(* each exactly once, also when two entries share an id.                    *)
C4_SelectionIsChecked ==
  \A i \in BindInvs : IsExactlyChecked(invs[i].posts, invs[i].checkDataArr)

(* The text of a --sources list, built tuple by tuple from the left. *)
RECURSIVE SourcesText(_, _)
SourcesText(posts, arr) ==
  IF arr = <<>> THEN <<>>
  ELSE LET front == SubSeq(arr, 1, Len(arr) - 1)
           e == posts[arr[Len(arr)]]
           t == <<"(", "\"">> \o e.varName \o <<"\"", ",", " ">> \o NatToStr(e.dsId)
                  \o <<",", " ">> \o NatToStr(e.dataSetId) \o <<",", " ">> \o NatToStr(e.id)
                  \o <<")">>
       IN IF front = <<>> THEN t ELSE SourcesText(posts, front) \o <<",">> \o t

(* C5: the command of an accepted bind is                                   *)
(* % bind --task="<user>@<path>" --sources=[<t1>,<t2>,...] with <user> the  *)
(* username cookie value, <path> the session path and one tuple             *)
(* ("<varName>", <dsId>, <dataSetId>, <id>) per checked entry, none for an  *)
(* unchecked one; the command of an unbind is % quit.                       *)
C5_CommandExact ==
  \A j \in 1..Len(sent) :
    LET inv == invs[sent[j].inv]
    IN IF inv.kind = "unbind"
         THEN sent[j].code = QUIT_CODE
         ELSE /\ IsExactlyChecked(inv.posts, inv.checkDataArr)
              /\ sent[j].code =
                   BIND_PREFIX \o Str(getCookie(cookie, USERNAME)) \o <<"@">> \o inv.m.path
                     \o BIND_MIDDLE \o SourcesText(inv.posts, inv.checkDataArr) \o <<"]">>

(* The step closes dialog i with the cancel button. *)
CancelStep(i) ==
  /\ invs[i].pc = "dialog"
  /\ invs'[i].pc # "dialog"
  /\ lastEvent' = [op |-> "dialogClose", inv |-> i, accept |-> FALSE]

(* C6: a bind command is sent only when the dialog is confirmed; dismissing *)
(* the dialog sends no kernel command, emits no open request, issues no     *)
(* POST and leaves displayStyle and name unchanged.                         *)
C6_CancelSendsNothing ==
  [][/\ \A i \in 1..Len(invs) :
          CancelStep(i) => UNCHANGED <<sent, opens, httpPosts, displayStyle, name>>
     /\ (sent' # sent /\ sent'[Len(sent')].code # QUIT_CODE)
          => /\ lastEvent'.op = "dialogClose"
             /\ lastEvent'.accept
             /\ invs[lastEvent'.inv].pc = "dialog"]_vars

(* A dialog with a checked row has been dismissed. *)
C6_Witness ==
  /\ lastEvent.op = "dialogClose"
  /\ ~lastEvent.accept
  /\ invs[lastEvent.inv].pc = "cancelled"
  /\ invs[lastEvent.inv].checkDataArr # <<>>

(* The step delivers an IOPub message to the handler of invocation i. *)
OutputStep(i) == i <= Len(invs) /\ invs'[i].outputs = invs[i].outputs + 1

(* C7: the POST to api/binds/0 is issued when, and only when, an output     *)
(* whose text contains 'bind successed' is received for an accepted bind    *)
(* command: none before the command is sent, none for an output without the *)
(* success substring.                                                       *)
C7_PostIffSuccessOutput ==
  [][/\ \A i \in BindInvs :
          (OutputStep(i) /\ Contains(lastEvent'.msg.text, BIND_SUCCESSED))
            => Len(httpPosts') = Len(httpPosts) + 1 /\ httpPosts'[Len(httpPosts')].inv = i
     /\ httpPosts' # httpPosts
          => \E i \in BindInvs :
               /\ OutputStep(i)
               /\ Contains(lastEvent'.msg.text, BIND_SUCCESSED)
               /\ invs[i].pc = "sent"
               /\ \E j \in 1..Len(sent) : sent[j].inv = i
               /\ httpPosts' = Append(httpPosts, httpPosts'[Len(httpPosts')])
               /\ httpPosts'[Len(httpPosts')].inv = i]_vars

(* One POST has been issued and a later 'binding fails' output caused none. *)
C7_Witness ==
  /\ Len(httpPosts) = 1
  /\ lastEvent.op = "bindOutput"
  /\ lastEvent.msg = TextMsg(BINDING_FAILS)

(* C8 as stated: the datasets of the POST body are the selected sample      *)
(* entries themselves, unchanged and with all their fields, in the order of *)
(* the tuples of the command.                                               *)
C8_PostVerbatim ==
  \A p \in 1..Len(httpPosts) :
    LET inv == invs[httpPosts[p].inv]
    IN httpPosts[p].datasets = [v \in 1..Len(inv.checkDataArr) |-> inv.posts[inv.checkDataArr[v]]]

(* C8 amended: the datasets of the POST body have one entry per tuple of    *)
(* the command's --sources list, in the same order, and each posted entry   *)
(* holds just the id and the variable name of the selection element the     *)
(* tuple was serialised from.                                               *)
C8_PostIdAndVarName ==
  \A p \in 1..Len(httpPosts) :
    LET inv == invs[httpPosts[p].inv]
        ds == httpPosts[p].datasets
    IN /\ Len(ds) = Len(inv.checkDataArr)
       /\ \A v \in 1..Len(ds) :
            /\ DOMAIN ds[v] = {"id", "varName"}
            /\ ds[v].id = inv.posts[inv.checkDataArr[v]].id
            /\ ds[v].varName = inv.posts[inv.checkDataArr[v]].varName
       /\ \E j \in 1..Len(sent) :
            /\ sent[j].inv = httpPosts[p].inv
            /\ Contains(sent[j].code,
                        <<"[">> \o SourcesText(inv.posts, inv.checkDataArr) \o <<"]">>)

(* A POST carrying two entries with different variable names was issued. *)
C8_Witness ==
  \E p \in 1..Len(httpPosts) :
    /\ Len(httpPosts[p].datasets) = 2
    /\ httpPosts[p].datasets[1].varName # httpPosts[p].datasets[2].varName
    /\ httpPosts[p].datasets[2].varName # <<>>

(* C9: after a bind of session m succeeds, the row of m displays the unbind *)
(* button and hides the bind button, whatever the name and path of m.       *)
C9_BoundRowShowsUnbind ==
  (lastEvent.op = "bindOutput" /\ Contains(lastEvent.msg.text, BIND_SUCCESSED))
    => LET m == invs[lastEvent.inv].m IN UnbindShown(m) /\ ~BindShown(m)

(* The display of the unbind button of row m in a given component state. *)
UnbindShownIn(ds, nm, m) == IF ds THEN FALSE ELSE label(m) = nm

(* The step delivers a success output of a bind or unbind of session b. *)
SuccessStep(b) ==
  \E i \in 1..Len(invs) :
    /\ OutputStep(i)
    /\ invs[i].m = b
    /\ Contains(lastEvent'.msg.text,
                IF invs[i].kind = "bind" THEN BIND_SUCCESSED ELSE QUIT_SUCCESSED)

(* C10: the bound display flag is per session: when session a is the one    *)
(* bound successfully and not unbound since (its row shows unbind), a       *)
(* successful bind or unbind of another session b leaves a's row as it is.  *)
C10_BoundFlagPerSession ==
  [][\A a \in Sessions, b \in Sessions :
       (a # b /\ ~displayStyle /\ name = a.path /\ UnbindShownIn(displayStyle, name, a)
          /\ SuccessStep(b))
         => UnbindShownIn(displayStyle', name', a)]_vars

----------------------------------------------------------------------------
(* Claims about the outputs of the kernel (SpecCycle). *)

(* The text of the message delivered contains needle. *)
OutputHas(i, needle) == OutputStep(i) /\ Contains(lastEvent'.msg.text, needle)

(* The success substring of the command of invocation i. *)
SuccessText(i) == IF invs[i].kind = "bind" THEN BIND_SUCCESSED ELSE QUIT_SUCCESSED

(* C11: displayStyle and name change only on receipt of an output that      *)
(* contains 'bind successed' (to false and the path) or 'quit successed'    *)
(* (to true and the path); a failure output, an output with neither         *)
(* substring, a click, a fetch result and a dialog action leave them as     *)
(* they are.                                                                *)
C11_DisplayChangesOnSuccessOnly ==
  [][/\ (displayStyle' # displayStyle \/ name' # name)
          => \E i \in 1..Len(invs) : OutputHas(i, SuccessText(i))
     /\ \A i \in 1..Len(invs) :
          OutputHas(i, SuccessText(i))
            => /\ displayStyle' = (invs[i].kind = "unbind")
               /\ name' = invs[i].m.path]_vars

(* After a successful bind, a 'quit fails' output has been received and the *)
(* row is still bound.                                                      *)
C11_Witness ==
  /\ lastEvent.op = "unbindOutput"
  /\ Contains(lastEvent.msg.text, QUIT_FAILS)
  /\ ~displayStyle
  /\ name = invs[lastEvent.inv].m.path

(* The failure substring of the command of invocation i. *)
FailText(i) == IF invs[i].kind = "bind" THEN BINDING_FAILS ELSE QUIT_FAILS

(* The step adds an error notice. *)
ErrorReported == nextId' > nextId /\ notices' # <<>> /\ notices'[1].type = "error"

(* C12 as stated: the failure of a bind or unbind command is reported by an *)
(* error notice exactly when the output text received for the command does  *)
(* not contain 'bind successed' (respectively 'quit successed').             *)
C12_FailureByAbsence ==
  [][\A i \in 1..Len(invs) :
       OutputStep(i) => (ErrorReported <=> ~Contains(lastEvent'.msg.text, SuccessText(i)))]_vars

(* C12 amended: the failure of a bind or unbind command is reported by an   *)
(* error notice exactly when the output text received for the command       *)
(* contains 'binding fails' (respectively 'quit fails'); an output with     *)
(* neither substring is reported neither as a success nor as a failure.     *)
C12_FailureBySubstring ==
  [][/\ \A i \in 1..Len(invs) :
          OutputStep(i) => (ErrorReported <=> Contains(lastEvent'.msg.text, FailText(i)))
     /\ ErrorReported => \E i \in 1..Len(invs) : OutputStep(i)
     /\ \A i \in 1..Len(invs) :
          (/\ OutputStep(i)
           /\ ~Contains(lastEvent'.msg.text, SuccessText(i))
           /\ ~Contains(lastEvent'.msg.text, FailText(i)))
            => UNCHANGED <<notices, nextId>>]_vars

(* A 'binding fails' output has been received and the error notice is up. *)
C12_Witness ==
  /\ lastEvent.op = "bindOutput"
  /\ Contains(lastEvent.msg.text, BINDING_FAILS)
  /\ notices # <<>>
  /\ notices[1].type = "error"

(* Nothing sent and nothing posted carries invocation i. *)
NothingFrom(i, cmds, posted) ==
  /\ \A j \in 1..Len(cmds) : cmds[j].inv # i
  /\ \A p \in 1..Len(posted) : posted[p].inv # i

(* C13: when the catalog fetch of a bind invocation fails, the failure is   *)
(* swallowed: no dialog is opened for the invocation, no kernel command is  *)
(* sent and no POST is issued for it, then or later, and the failure leaves *)
(* displayStyle and name unchanged.                                         *)
C13_FetchFailureSwallowed ==
  [][\A i \in BindInvs :
       /\ (invs[i].pc = "fetching" /\ invs'[i].fetch = "failed")
            => /\ UNCHANGED <<sent, opens, httpPosts, displayStyle, name>>
               /\ invs'[i].launch = 0
               /\ invs'[i].pc \notin {"queued", "dialog", "sent", "cancelled"}
               /\ NothingFrom(i, sent', httpPosts')
       /\ invs[i].fetch = "failed"
            => /\ invs'[i] = invs[i]
               /\ NothingFrom(i, sent', httpPosts')]_vars

(* One invocation's fetch has failed and another invocation went on to send *)
(* its command.                                                             *)
C13_Witness ==
  /\ \E i \in BindInvs : invs[i].fetch = "failed" /\ invs[i].launch = 0
  /\ lastEvent.op = "dialogClose"
  /\ Len(sent) = 1

(* The number of execute requests made for invocation i. *)
SentFor(i, cmds) == Cardinality({j \in 1..Len(cmds) : cmds[j].inv = i})

(* C14: there is no retry: each confirmed bind dialog sends exactly one     *)
(* execute request and each unbind click exactly one % quit request, an     *)
(* unconfirmed invocation none; no output, failure or other, and no step    *)
(* other than a confirmation or an unbind click sends a command.            *)
C14_NoRetry ==
  [][/\ \A i \in 1..Len(invs') :
          /\ SentFor(i, sent') = IF invs'[i].pc = "sent" THEN 1 ELSE 0
          /\ invs'[i].kind = "unbind"
               => \E j \in 1..Len(sent') : sent'[j].inv = i /\ sent'[j].code = QUIT_CODE
     /\ \A i \in 1..Len(invs) :
          /\ OutputStep(i) => sent' = sent
          /\ invs[i].pc = "sent" => invs'[i].pc = "sent"
     /\ sent' # sent
          => /\ sent' = Append(sent, sent'[Len(sent')])
             /\ lastEvent'.op \in {"dialogClose", "unbindClick"}
             /\ sent'[Len(sent')].inv = lastEvent'.inv
             /\ SentFor(lastEvent'.inv, sent) = 0]_vars

(* The bind and the unbind command have each been sent once and the kernel  *)
(* has answered the unbind with a failure.                                  *)
C14_Witness ==
  /\ lastEvent.op = "unbindOutput"
  /\ Contains(lastEvent.msg.text, QUIT_FAILS)
  /\ Len(sent) = 2
  /\ sent[2].code = QUIT_CODE

----------------------------------------------------------------------------
(* Claims about the session list (SpecList). *)

(* The claim's filter: the name is non-empty or the basename of the path    *)
(* contains a '.'.                                                          *)
PassesFilter(m) == m.name # <<>> \/ Contains(Basename(m.path), <<".">>)

(* The positions of models that pass, in increasing order. *)
PassingPositions(models) == {p \in 1..Len(models) : PassesFilter(models[p])}

(* C15: the list shows exactly the sessions of the most recent              *)
(* runningChanged emission (or of the initial snapshot) that pass the       *)
(* filter, in the same relative order; a session passes iff its name is     *)
(* non-empty or the basename of its path contains '.', and its label is its *)
(* name when non-empty, otherwise the basename of its path.                 *)
C15_ListShowsFiltered ==
  LET pos == PassingPositions(running)
  IN /\ Len(rows) = Cardinality(pos)
     /\ \A r \in 1..Len(rows) :
          \E p \in pos :
            /\ Cardinality({q \in pos : q < p}) = r - 1
            /\ rows[r].model = running[p]
            /\ rows[r].label = IF running[p].name # <<>> THEN running[p].name
                                ELSE Basename(running[p].path)

(* After an emission the list shows two of three sessions, one of them      *)
(* passing by its name alone, and drops a session whose only '.' is in a    *)
(* directory of its path.                                                   *)
C15_Witness ==
  /\ emitted > 0
  /\ running = <<SessC, SessE, SessB>>
  /\ Len(rows) = 2

----------------------------------------------------------------------------
(* Claims about the dialogs of several invocations (SpecOverlap). *)

(* Nothing is selected, checked or named in the record of an invocation. *)
Fresh(inv) ==
  /\ inv.checkDataArr = <<>>
  /\ \A k \in 1..Len(inv.posts) : ~inv.posts[k].isChecked /\ inv.posts[k].varName = <<>>

(* The step shows the dialog of invocation i. *)
DialogOpens(i) ==
  /\ i \in 1..Len(invs)
  /\ invs[i].pc # "dialog"
  /\ invs'[i].pc = "dialog"

(* C16: the checklist is rebuilt fresh each time the dialog opens: every    *)
(* bind invocation starts with an empty selection, every entry unchecked    *)
(* and every variable name empty, whatever was checked, typed, confirmed or *)
(* cancelled in an earlier invocation, for the same or another session.     *)
C16_FreshChecklist ==
  [][\A i \in 1..Len(invs') :
       /\ (invs'[i].kind = "bind" /\ invs'[i].pc \in {"fetching", "queued"}) => Fresh(invs'[i])
       /\ DialogOpens(i) => Fresh(invs'[i]) /\ invs'[i].posts # <<>>]_vars

(* The dialog of a second invocation has just opened after the first one    *)
(* was confirmed with its entry checked and named.                          *)
C16_Witness ==
  /\ Len(invs) = 2
  /\ invs[1].pc = "sent"
  /\ invs[1].checkDataArr # <<>>
  /\ invs[1].posts[1].varName # <<>>
  /\ invs[2].pc = "dialog"
  /\ lastEvent.op \in {"fetchResolve", "dialogClose"}
  /\ Fresh(invs[2])

(* The step changes a row or the selection of the shown dialog i. *)
EditStep(i) ==
  /\ invs[i].pc = "dialog"
  /\ invs'[i].pc = "dialog"
  /\ invs'[i] # invs[i]

(* C17: sample entries and the selection belong to one dialog invocation:   *)
(* when bind invocations overlap, toggling or naming an entry in one dialog *)
(* changes no entry, selection, command or POST body of another, and each   *)
(* command and POST body is made of its own invocation's selection.         *)
C17_DialogsIndependent ==
  [][/\ \A i \in 1..Len(invs) :
          EditStep(i)
            => /\ \A j \in 1..Len(invs) : j # i => invs'[j] = invs[j]
               /\ UNCHANGED <<sent, httpPosts>>
     /\ \A j \in 1..Len(sent') :
          LET inv == invs'[sent'[j].inv]
          IN inv.kind = "bind"
               => sent'[j].code = BindCode(TaskId(cookie, inv.m), inv.posts, inv.checkDataArr)
     /\ \A p \in 1..Len(httpPosts') :
          LET inv == invs'[httpPosts'[p].inv]
          IN httpPosts'[p].datasets = BindDatasets(inv.posts, inv.checkDataArr)]_vars

(* While the first invocation waited for the kernel, the entry of the       *)
(* second dialog was checked and left unnamed; the POST of the first then   *)
(* carried the first one's named entry.                                     *)
C17_Witness ==
  /\ Len(invs) = 2
  /\ lastEvent.op = "bindOutput"
  /\ lastEvent.inv = 1
  /\ Len(httpPosts) = 1
  /\ Len(httpPosts[1].datasets) = 1
  /\ httpPosts[1].datasets[1].varName # <<>>
  /\ invs[2].pc = "dialog"
  /\ invs[2].checkDataArr # <<>>
  /\ invs[2].posts[1].varName = <<>>

----------------------------------------------------------------------------
(* Claims about the backend requests (SpecBoundData). *)

(* C18: for one bind of session m, the notebookId of the POST body is the   *)
(* task identifier <user>@<path> inside the command whose success caused    *)
(* the POST, and a later getBoundData for m queries api/binds/0 with that   *)
(* same notebookId.                                                         *)
C18_SameNotebookId ==
  \A p \in 1..Len(httpPosts) :
    LET id == httpPosts[p].notebookId
        start == BIND_PREFIX \o id \o BIND_MIDDLE
    IN /\ \E j \in 1..Len(sent) :
            /\ sent[j].inv = httpPosts[p].inv
            /\ Len(sent[j].code) >= Len(start)
            /\ SubSeq(sent[j].code, 1, Len(start)) = start
       /\ \A g \in 1..Len(httpGets) :
            (/\ invs[httpGets[g].inv].m = invs[httpPosts[p].inv].m
             /\ httpGets[g].after >= p)
              => httpGets[g].notebookId = id

----------------------------------------------------------------------------
(* Claims about the buttons of a row (SpecCycle). *)

(* Any session model a row can be rendered for. *)
RowModels == Sessions \cup {invs[i].m : i \in 1..Len(invs)}

(* C19: in every state and for every row, exactly one of the bind and the   *)
(* unbind button is displayed, never both and never neither; in the initial *)
(* state and after a successful unbind every row shows bind and none shows  *)
(* unbind.                                                                  *)
C19_ExactlyOneButton ==
  /\ \A m \in RowModels :
       \/ UnbindShown(m) /\ ~BindShown(m)
       \/ ~UnbindShown(m) /\ BindShown(m)
  /\ (\/ lastEvent.op = "init"
      \/ lastEvent.op = "unbindOutput" /\ Contains(lastEvent.msg.text, QUIT_SUCCESSED))
       => \A m \in RowModels : BindShown(m) /\ ~UnbindShown(m)

(* A session was bound, its row showed unbind, and its unbind succeeded:    *)
(* the row shows bind again although name still holds its label.            *)
C19_Witness ==
  /\ lastEvent.op = "unbindOutput"
  /\ Contains(lastEvent.msg.text, QUIT_SUCCESSED)
  /\ displayStyle
  /\ name = label(invs[lastEvent.inv].m)
  /\ BindShown(invs[lastEvent.inv].m)

----------------------------------------------------------------------------
(* Claims about the closers and timers of the Toast (SpecToast). *)

(* The step runs the closer or the timer of the notice with identity n. *)
RemovalOf(n) ==
  /\ lastEvent'.op \in {"close", "timer"}
  /\ lastEvent'.id = n
  /\ <<notices, timers, onCloseScheduled>>' # <<notices, timers, onCloseScheduled>>
       \/ lastEvent' # lastEvent

(* C20: the closer returned by addNotice for notice N, and N's duration     *)
(* timer, remove only N: when N has been removed or replaced by a later     *)
(* notice, invoking N's closer or firing N's timer leaves the notice now    *)
(* visible in place, also when several notices were added within the same   *)
(* millisecond.                                                             *)
C20_CloserRemovesOnlyOwn ==
  [][\A n \in 0..(nextId - 1) :
       (RemovalOf(n) /\ notices # <<>> /\ notices[1].id # n) => notices' = notices]_vars

----------------------------------------------------------------------------
(* Claims about the loading notice (SpecLoading). *)

(* Every fetch that was started has resolved. *)
AllFetchesResolved == \A i \in 1..Len(invs) : invs[i].fetch \in {"resolved", "none"}

LoadingVisible == \E n \in 1..Len(notices) : notices[n].type = "loading"

(* C21: every loading notice shown by bind or getBoundData is removed once  *)
(* its fetch resolves: when every started fetch has resolved and every      *)
(* timed notice has expired, no loading notice is visible, whatever the     *)
(* interleaving of bind, getBoundData, kernel outputs and timers.           *)
C21_LoadingRemoved ==
  (AllFetchesResolved /\ timers = <<>>) => ~LoadingVisible

(* Two fetches started while the first loading notice was up have both      *)
(* resolved, and a success notice shown in between has expired.             *)
C21_Witness ==
  /\ Len(invs) = 2
  /\ AllFetchesResolved
  /\ invs[1].kind # invs[2].kind
  /\ timers = <<>>
  /\ nextId >= 3
  /\ lastEvent.op = "timer"
  /\ notices = <<>>

----------------------------------------------------------------------------
(* Claims about the answers of several kernels (Spec). *)

(* The number of POSTs caused by invocation i. *)
PostsFor(i) == Cardinality({p \in 1..Len(httpPosts) : httpPosts[p].inv = i})

(* C22: when bind commands for two sessions are issued in the order A then  *)
(* B and both succeed, then once all outputs have been delivered the        *)
(* session recorded as bound (name) is B's path, whatever the order in      *)
(* which the two kernels' outputs arrive.                                   *)
C22_LastIssuedIsBound ==
  \A a \in 1..Len(sent), b \in 1..Len(sent) :
    (/\ a < b
     /\ invs[sent[a].inv].kind = "bind"
     /\ invs[sent[b].inv].kind = "bind"
     /\ sent[a].path # sent[b].path
     /\ PostsFor(sent[a].inv) = 1
     /\ PostsFor(sent[b].inv) = 1
     /\ OutputsIn(invs) = 2)
      => name = sent[b].path

(* The step adds a success notice. *)
SuccessReported == nextId' > nextId /\ notices' # <<>> /\ notices'[1].type = "success"

(* C23: each confirmed bind dialog results in at most one POST to           *)
(* api/binds/0 and at most one success notice, however many output messages *)
(* the kernel emits for the command: once the POST of an invocation is out, *)
(* a further output for it posts nothing and shows no success notice.       *)
C23_AtMostOnePost ==
  [][\A i \in BindInvs :
       (OutputStep(i) /\ PostsFor(i) >= 1)
         => (httpPosts' = httpPosts /\ ~SuccessReported)]_vars

----------------------------------------------------------------------------
(* Claims about unbinding and the persisted bindings (SpecUnbind).          *)

(* The step is the click on unbind or an output of an unbind command. *)
UnbindStep ==
  \/ /\ Len(invs') = Len(invs) + 1
     /\ invs'[Len(invs')].kind = "unbind"
  \/ \E i \in 1..Len(invs) : invs[i].kind = "unbind" /\ OutputStep(i)

----------------------------------------------------------------------------
(* Claims about open requests (SpecOpen).                                   *)

ToLowerCase(t) == IF t \in {"Console", "CONSOLE"} THEN "console" ELSE t

(* The one command an open request for session m is to execute. *)
ExpectedOpen(m) ==
  [command |-> IF ToLowerCase(m.type) = "console" THEN "console:open" ELSE "docmanager:open",
   path |-> m.path]

(* The step is a click on the label of m, a click on unbind of m, or the    *)
(* confirmation of a bind dialog of m.                                      *)
OpenRequestStep(m) ==
  \/ invs' = invs /\ lastEvent' = [op |-> "labelClick", m |-> m]
  \/ /\ Len(invs') = Len(invs) + 1
     /\ invs'[Len(invs')].kind = "unbind"
     /\ invs'[Len(invs')].m = m
  \/ \E i \in 1..Len(invs) :
       /\ invs[i].kind = "bind"
       /\ invs[i].m = m
       /\ invs[i].pc = "dialog"
       /\ invs'[i].pc = "sent"

----------------------------------------------------------------------------
(* Claims about timers and onClose callbacks (SpecToast).                   *)

(* The step is the run of the oldest timer. *)
TimerStep == timers # <<>> /\ timers' = Tail(timers)

Listed(ns, id) == \E j \in 1..Len(ns) : ns[j].id = id

(* C26: a notice added with duration > 0 that has not been replaced or      *)
(* closed earlier is removed when its duration elapses (its timer runs); a  *)
(* notice added with duration 0, the loading notice, is never removed by a  *)
(* timer, only by its closer or by a later notice replacing it.             *)
C26_TimerRemovesOwnOnly ==
  [][TimerStep =>
       /\ ~Listed(notices', Head(timers).id)
       /\ \A j \in 1..Len(notices) :
            notices[j].duration = 0 => Listed(notices', notices[j].id)]_vars

(* The onClose of the notice with identity n has been scheduled. *)
Scheduled(seq, n) == \E j \in 1..Len(seq) : seq[j] = n

(* C27: the onClose callback of a notice is scheduled at most once, and     *)
(* only when that notice is removed by its own key, by a closer or a timer; *)
(* calling the closer again, or the timer firing after the closer,          *)
(* schedules nothing; and a notice that a later notice replaced never has   *)
(* its onClose scheduled.                                                   *)
C27_OnCloseOnceByOwnKey ==
  [][/\ \A a \in 1..Len(onCloseScheduled'), b \in 1..Len(onCloseScheduled') :
          onCloseScheduled'[a] = onCloseScheduled'[b] => a = b
     /\ \A n \in 0..(nextId - 1) :
          (Scheduled(onCloseScheduled', n) /\ ~Scheduled(onCloseScheduled, n))
            => /\ \E j \in 1..Len(notices) :
                    /\ notices[j].id = n
                    /\ notices[j].onClose
                    /\ notices[j].key = lastEvent'.key
               /\ lastEvent'.op \in {"close", "timer"}
               /\ ~Listed(notices', n)
     /\ \A n \in 0..(nextId - 1) :
          (RemovalOf(n) /\ Scheduled(onCloseScheduled, n))
            => onCloseScheduled' = onCloseScheduled]_vars

====
